---- MODULE Spec2Model ----
(***************************************************************************)
(* Model of E_Product_Management.cpp: the product variants and their       *)
(* discount rules, ShoppingCart (a map id -> (product, qty)), and Order    *)
(* (a snapshot of a cart with an id drawn from a process-wide counter and  *)
(* a status).                                                              *)
(*                                                                         *)
(* Money is a scaled integer: one unit is 1/10000 of the currency unit, so *)
(* that price * 0.90, * 0.70 and * 0.95 are exact.  size_t is modelled     *)
(* with SizeBits bits instead of 64: arithmetic on quantities is modulo    *)
(* 2^SizeBits, as unsigned arithmetic is in C++.  Order::created_at is not *)
(* modelled (nothing reads it).                                            *)
(***************************************************************************)
EXTENDS Integers, Sequences, FiniteSets, TLC

VARIABLES cart, orders, nextOrderId, last

vars == <<cart, orders, nextOrderId, last>>

(***************************************************************************)
(* Bounds                                                                  *)
(***************************************************************************)
\* width of size_t in the model (64 in the build)
SizeBits == 2

\* number of Order objects constructed in one run of the model
MaxOrders == 2

\* units of one product the driver of SpecSnapshot lets the cart hold
MaxHeld == 2

SizeMod == 2 ^ SizeBits

SizeMax == SizeMod - 1

(***************************************************************************)
(* Products.  e1, c1, g1 are the objects main() builds; c2 is a clearance  *)
(* Clothing that carries the same id as c1 (ids are constructor arguments, *)
(* nothing makes them unique).  Null is the empty shared_ptr.              *)
(***************************************************************************)
e1 == [id |-> 1, kind |-> "Electronics", on_clearance |-> FALSE, price |-> 6999900]

c1 == [id |-> 2, kind |-> "Clothing", on_clearance |-> FALSE, price |-> 2500000]

g1 == [id |-> 3, kind |-> "Grocery", on_clearance |-> FALSE, price |-> 34900]

c2 == [id |-> 2, kind |-> "Clothing", on_clearance |-> TRUE, price |-> 400000]

Null == [id |-> 0, kind |-> "null", on_clearance |-> FALSE, price |-> 0]

Products == {e1, c1, g1, c2}

\* the id main() removes that no product carries
InvalidId == 999

Ids == {p.id : p \in Products} \cup {InvalidId}

Quantities == 0 .. SizeMax

EmptyItems == [i \in {} |-> [first |-> Null, second |-> 0]]

(***************************************************************************)
(* Product variants                                                        *)
(***************************************************************************)
getId(p) == p.id

getBasePrice(p) == p.price

\* a cast that only sees the first class that derives from IDiscount
ImplementsIDiscountElectronicsOnly(p) == p.kind = "Electronics"

\* dynamic_cast<const IDiscount*>(p.get()) is non-null
ImplementsIDiscount(p) == p.kind \in {"Electronics", "Clothing"}

\* IDiscount::applyDiscount as overridden by the dynamic type of p
applyDiscount(p, price) ==
    IF p.kind = "Electronics" THEN (price * 90) \div 100
    ELSE IF p.on_clearance THEN (price * 70) \div 100
    ELSE (price * 95) \div 100

\* virtual Product::finalPrice
finalPrice(p) ==
    IF p.kind \in {"Electronics", "Clothing"} THEN applyDiscount(p, p.price)
    ELSE p.price

(***************************************************************************)
(* ShoppingCart                                                            *)
(***************************************************************************)
\* addProduct without the qty == 0 test
addProductNoZeroCheck(items, p, qty) ==
    IF p = Null THEN items
    ELSE IF p.id \notin DOMAIN items
         THEN [i \in DOMAIN items \cup {p.id} |->
                 IF i = p.id THEN [first |-> p, second |-> qty] ELSE items[i]]
         ELSE [items EXCEPT ![p.id].second = (@ + qty) % SizeMod]

addProduct(items, p, qty) ==
    IF p = Null \/ qty = 0 THEN items
    ELSE IF getId(p) \notin DOMAIN items
         THEN [i \in DOMAIN items \cup {getId(p)} |->
                 IF i = getId(p) THEN [first |-> p, second |-> qty] ELSE items[i]]
         ELSE [items EXCEPT ![getId(p)].second = (@ + qty) % SizeMod]

\* removeProduct that erases on qty > held instead of qty >= held
removeProductStrict(items, id, qty) ==
    IF id \notin DOMAIN items THEN items
    ELSE IF qty > items[id].second
         THEN [i \in DOMAIN items \ {id} |-> items[i]]
         ELSE [items EXCEPT ![id].second = @ - qty]

removeProduct(items, id, qty) ==
    IF id \notin DOMAIN items THEN items
    ELSE IF qty >= items[id].second
         THEN [i \in DOMAIN items \ {id} |-> items[i]]
         ELSE [items EXCEPT ![id].second = @ - qty]

\* the body of the loop of ShoppingCart::total() for one entry kv
totalTerm(kv) ==
    IF ImplementsIDiscount(kv.first)
    THEN applyDiscount(kv.first, getBasePrice(kv.first)) * kv.second
    ELSE getBasePrice(kv.first) * kv.second

RECURSIVE totalLoop(_, _)
\* the loop of ShoppingCart::total() over the entries whose keys are in S
totalLoop(items, S) ==
    IF S = {} THEN 0
    ELSE LET i == CHOOSE x \in S : TRUE
         IN totalTerm(items[i]) + totalLoop(items, S \ {i})

total(items) == totalLoop(items, DOMAIN items)

empty(items) == DOMAIN items = {}

\* a snapshot that keeps the products and loses the quantities
itemsSnapshotWithoutQuantities(items) ==
    [i \in DOMAIN items |-> [first |-> items[i].first, second |-> 1]]

itemsSnapshot(items) == items

clear(items) == EmptyItems

\* cart += p: the cart after the call
operatorPlusAssign(items, p) == addProduct(items, p, 1)

\* operator+ taking its left operand by reference
operatorPlusByReference(items, p) ==
    [operand |-> addProduct(items, p, 1), result |-> addProduct(items, p, 1)]

\* cart + p: the left operand is taken by value, so the caller's cart keeps its
\* value (operand) and the changed copy is returned (result)
operatorPlus(items, p) ==
    [operand |-> items, result |-> addProduct(items, p, 1)]

(***************************************************************************)
(* Order                                                                   *)
(***************************************************************************)
\* nextOrderId++ in place of ++nextOrderId
postIncrement(n) == [counter |-> n + 1, value |-> n]

\* ++nextOrderId on the atomic counter: the new counter and the value returned.
\* The counter is 64 bits wide; MaxOrders keeps it far from 2^64.
preIncrement(n) == [counter |-> n + 1, value |-> n + 1]

\* Order::Order(const ShoppingCart&), given the value ++nextOrderId returned
Order(items, id) ==
    [order_id |-> id, items |-> itemsSnapshot(items), status |-> "Created"]

\* the body of the loop of Order::total() for one entry kv
orderTotalTerm(kv) ==
    IF ImplementsIDiscount(kv.first)
    THEN applyDiscount(kv.first, getBasePrice(kv.first)) * kv.second
    ELSE getBasePrice(kv.first) * kv.second

RECURSIVE orderTotalLoop(_, _)
orderTotalLoop(items, S) ==
    IF S = {} THEN 0
    ELSE LET i == CHOOSE x \in S : TRUE
         IN orderTotalTerm(items[i]) + orderTotalLoop(items, S \ {i})

\* Order::total()
orderTotal(o) == orderTotalLoop(o.items, DOMAIN o.items)

pay(o) == [o EXCEPT !.status = "Paid"]

\* ship() that acts on paid orders only
shipOnlyIfPaid(o) == IF o.status = "Paid" THEN [o EXCEPT !.status = "Shipped"] ELSE o

ship(o) == [o EXCEPT !.status = "Shipped"]

\* cancel() that puts the order back to its initial status
cancelResets(o) == [o EXCEPT !.status = "Created"]

cancel(o) == [o EXCEPT !.status = "Cancelled"]

\* the record of the call that produced the current state: the operation, its
\* arguments (idx is the order it was called on), the cart before it, the cart
\* it returned (operator+) and the status the order had before it
Call(op, p, id, qty, idx, before, ret, was) ==
    [op |-> op, p |-> p, id |-> id, qty |-> qty, idx |-> idx,
     before |-> before, ret |-> ret, was |-> was]

Init ==
    /\ cart = EmptyItems
    /\ orders = <<>>
    /\ nextOrderId = 0
    /\ last = Call("init", Null, 0, 0, 0, EmptyItems, EmptyItems, "")

AddProduct(p, qty) ==
    /\ cart' = addProduct(cart, p, qty)
    /\ last' = Call("addProduct", p, getId(p), qty, 0, cart, EmptyItems, "")
    /\ UNCHANGED <<orders, nextOrderId>>

RemoveProduct(id, qty) ==
    /\ cart' = removeProduct(cart, id, qty)
    /\ last' = Call("removeProduct", Null, id, qty, 0, cart, EmptyItems, "")
    /\ UNCHANGED <<orders, nextOrderId>>

\* cart += p
OperatorPlusAssign(p) ==
    /\ cart' = operatorPlusAssign(cart, p)
    /\ last' = Call("operator+=", p, getId(p), 1, 0, cart, EmptyItems, "")
    /\ UNCHANGED <<orders, nextOrderId>>

\* cart + p: the left operand is taken by value; the copy is changed and returned
OperatorPlus(p) ==
    /\ cart' = operatorPlus(cart, p).operand
    /\ last' = Call("operator+", p, getId(p), 1, 0, cart, operatorPlus(cart, p).result, "")
    /\ UNCHANGED <<orders, nextOrderId>>

Clear ==
    /\ cart' = clear(cart)
    /\ last' = Call("clear", Null, 0, 0, 0, cart, EmptyItems, "")
    /\ UNCHANGED <<orders, nextOrderId>>

\* Order order(cart)
NewOrder ==
    /\ Len(orders) < MaxOrders
    /\ nextOrderId' = preIncrement(nextOrderId).counter
    /\ orders' = Append(orders, Order(cart, preIncrement(nextOrderId).value))
    /\ last' = Call("Order", Null, 0, 0, Len(orders) + 1, cart, EmptyItems, "")
    /\ UNCHANGED cart

Pay(i) ==
    /\ orders' = [orders EXCEPT ![i] = pay(@)]
    /\ last' = Call("pay", Null, 0, 0, i, cart, EmptyItems, orders[i].status)
    /\ UNCHANGED <<cart, nextOrderId>>

Ship(i) ==
    /\ orders' = [orders EXCEPT ![i] = ship(@)]
    /\ last' = Call("ship", Null, 0, 0, i, cart, EmptyItems, orders[i].status)
    /\ UNCHANGED <<cart, nextOrderId>>

Cancel(i) ==
    /\ orders' = [orders EXCEPT ![i] = cancel(@)]
    /\ last' = Call("cancel", Null, 0, 0, i, cart, EmptyItems, orders[i].status)
    /\ UNCHANGED <<cart, nextOrderId>>

NextCart ==
    \/ \E p \in Products \cup {Null}, qty \in Quantities : AddProduct(p, qty)
    \/ \E id \in Ids, qty \in Quantities : RemoveProduct(id, qty)
    \/ \E p \in Products \cup {Null} : OperatorPlusAssign(p)
    \/ \E p \in Products \cup {Null} : OperatorPlus(p)
    \/ Clear

\* the cart alone, under every product and every quantity
Spec == Init /\ [][NextCart]_vars

\* the products the drivers of the order specifications put in the cart
DriverProducts == {e1, c1}

\* the driver adds one unit at a time while no entry holds MaxHeld units
MayAdd == \A i \in DOMAIN cart : cart[i].second < MaxHeld

NextSnapshot ==
    \/ \E p \in DriverProducts : MayAdd /\ AddProduct(p, 1)
    \/ \E p \in DriverProducts : RemoveProduct(getId(p), 1)
    \/ \E p \in DriverProducts : MayAdd /\ OperatorPlusAssign(p)
    \/ Clear
    \/ NewOrder

\* carts of a few units, and the orders constructed from them
SpecSnapshot == Init /\ [][NextSnapshot]_vars

NextOrder ==
    \/ \E p \in DriverProducts : getId(p) \notin DOMAIN cart /\ OperatorPlusAssign(p)
    \/ \E p \in DriverProducts : RemoveProduct(getId(p), 1)
    \/ NewOrder
    \/ \E i \in 1 .. Len(orders) : Pay(i)
    \/ \E i \in 1 .. Len(orders) : Ship(i)
    \/ \E i \in 1 .. Len(orders) : Cancel(i)

\* orders through their status calls, with cart calls in between
SpecOrder == Init /\ [][NextOrder]_vars

(***************************************************************************)
(* Properties                                                              *)
(***************************************************************************)
\* every entry other than the one for id is the same in both maps
OthersUnchanged(b, a, id) ==
    /\ DOMAIN a \ {id} = DOMAIN b \ {id}
    /\ \A i \in DOMAIN b \ {id} : a[i] = b[i]

\* the final price the specification states for each variant
StatedFinalPrice(p) ==
    CASE p.kind = "Electronics" -> (p.price * 90) \div 100
      [] p.kind = "Clothing" /\ p.on_clearance -> (p.price * 70) \div 100
      [] p.kind = "Clothing" /\ ~p.on_clearance -> (p.price * 95) \div 100
      [] p.kind = "Grocery" -> p.price

RECURSIVE StatedSum(_, _)
StatedSum(items, S) ==
    IF S = {} THEN 0
    ELSE LET i == CHOOSE x \in S : TRUE
         IN StatedFinalPrice(items[i].first) * items[i].second
            + StatedSum(items, S \ {i})

StatusCalls == {"pay", "ship", "cancel"}

CartCalls == {"addProduct", "removeProduct", "operator+=", "clear"}

\* C1: every entry present in the cart has quantity >= 1, whatever sequence
\* of addProduct, removeProduct, operator+=, operator+ and clear produced it.
\* (Violated: addProduct(p, 1); addProduct(p, SizeMax) wraps the quantity to 0.)
C1_QuantityAtLeastOne == \A i \in DOMAIN cart : cart[i].second >= 1

\* C2: an order's item map equals the cart's item map at the instant of its
\* construction, and no later step (addProduct, removeProduct, operator+=,
\* clear on the source cart, or another construction) changes the item map or
\* the total() of an order that exists.
C2_SnapshotIsolation ==
    [][/\ Len(orders') >= Len(orders)
       /\ \A i \in 1 .. Len(orders) :
            /\ orders'[i].items = orders[i].items
            /\ orderTotal(orders'[i]) = orderTotal(orders[i])
       /\ Len(orders') > Len(orders) =>
            /\ Len(orders') = Len(orders) + 1
            /\ orders'[Len(orders')].items = cart
            /\ orderTotal(orders'[Len(orders')]) = total(cart)]_vars

\* an order whose source cart has been changed since: the order still holds
\* two units of a product the cart no longer holds two of
C2_Witness ==
    /\ last.op \in CartCalls
    /\ \E i \in 1 .. Len(orders) :
         \E k \in DOMAIN orders[i].items :
            /\ orders[i].items[k].second = 2
            /\ (k \notin DOMAIN cart \/ cart[k].second # 2)

\* C3: order ids are strictly increasing in construction order (hence unique),
\* the first order has id 1, the counter is 0 before any construction, and no
\* id handed out exceeds the counter (so the next id is a new one), whatever
\* cart and status calls happen in between.
C3_OrderIdsIncrease ==
    /\ \A i, j \in 1 .. Len(orders) :
          i < j => orders[i].order_id < orders[j].order_id
    /\ Len(orders) >= 1 => orders[1].order_id = 1
    /\ Len(orders) = 0 => nextOrderId = 0
    /\ \A i \in 1 .. Len(orders) : orders[i].order_id <= nextOrderId

\* two orders, with a status call on the first and a cart call in between
C3_Witness ==
    /\ Len(orders) >= 2
    /\ orders[1].status # "Created"
    /\ orders[1].items # orders[2].items

\* C4: total() of the cart equals the sum over its entries of
\* finalPrice(product) * quantity, and finalPrice is price * 0.90 for
\* Electronics, * 0.70 for clearance Clothing, * 0.95 for other Clothing, and
\* the base price for Grocery.
C4_TotalIsSumOfFinalPrices ==
    /\ total(cart) = StatedSum(cart, DOMAIN cart)
    /\ \A i \in DOMAIN cart :
          finalPrice(cart[i].first) = StatedFinalPrice(cart[i].first)
    /\ \A p \in Products : finalPrice(p) = StatedFinalPrice(p)

\* a cart of an Electronics, a clearance Clothing and a Grocery, several units
C4_Witness ==
    /\ DOMAIN cart = {1, 2, 3}
    /\ cart[2].first = c2
    /\ \A i \in DOMAIN cart : cart[i].second >= 2

\* C5: addProduct(p, q) with p non-null and q >= 1: a cart without an entry
\* for p's id gains the entry (p, q); a cart holding n for p's id holds n + q
\* afterwards; entries for other ids are unchanged.
\* (Violated: n + q is computed modulo the width of size_t.)
C5_AddAccumulates ==
    (last.op = "addProduct" /\ last.p # Null /\ last.qty >= 1) =>
        /\ last.id \in DOMAIN cart
        /\ IF last.id \in DOMAIN last.before
           THEN cart[last.id].second = last.before[last.id].second + last.qty
           ELSE cart[last.id] = [first |-> last.p, second |-> last.qty]
        /\ OthersUnchanged(last.before, cart, last.id)

\* C6: removeProduct(id, q) on a cart holding n for id: q >= n deletes the
\* entry (and leaves the cart empty if it was the only one); q < n leaves
\* n - q, which is between 1 and n, for the same product; entries for other
\* ids are unchanged.
C6_RemoveDecrementsOrDeletes ==
    (last.op = "removeProduct" /\ last.id \in DOMAIN last.before) =>
        LET n == last.before[last.id].second
            q == last.qty
        IN /\ q >= n => last.id \notin DOMAIN cart
           /\ (q >= n /\ DOMAIN last.before = {last.id}) => empty(cart)
           /\ q < n =>
                /\ last.id \in DOMAIN cart
                /\ cart[last.id].second = n - q
                /\ cart[last.id].second >= 1
                /\ cart[last.id].second <= n
                /\ cart[last.id].first = last.before[last.id].first
           /\ OthersUnchanged(last.before, cart, last.id)

\* add(p, 2); remove(p, 3): more than held is removed from the only entry
C6_Witness ==
    /\ last.op = "removeProduct"
    /\ DOMAIN last.before = {last.id}
    /\ last.before[last.id].second = 2
    /\ last.qty > 2
    /\ empty(cart)

\* C7: addProduct with a null product or with quantity 0, and removeProduct
\* with an id the cart has no entry for, leave the cart (entries, quantities,
\* total()) as it was.
C7_InvalidInputsAreNoOps ==
    (\/ last.op = "addProduct" /\ (last.p = Null \/ last.qty = 0)
     \/ last.op = "removeProduct" /\ last.id \notin DOMAIN last.before) =>
        /\ cart = last.before
        /\ total(cart) = total(last.before)

\* addProduct(p, 0) for a product the cart does not hold, on a non-empty cart
C7_Witness ==
    /\ last.op = "addProduct"
    /\ last.p # Null
    /\ last.qty = 0
    /\ last.id \notin DOMAIN last.before
    /\ cart # EmptyItems

\* C8: every status change of an order is Created -> Paid, Paid -> Shipped,
\* or a move to Cancelled from Created or Paid.
\* (Violated: ship() on a Created order, pay() on a Shipped one.)
C8_Lifecycle ==
    [][\A i \in 1 .. Len(orders) :
          orders'[i].status # orders[i].status =>
              <<orders[i].status, orders'[i].status>> \in
                  {<<"Created", "Paid">>, <<"Paid", "Shipped">>,
                   <<"Created", "Cancelled">>, <<"Paid", "Cancelled">>}]_vars

\* C8 as amended: an order is constructed Created, its status is always one of
\* the four values, and every status change is a move to Paid, Shipped or
\* Cancelled: Created is never re-entered.
C8_StatusNeverBackToCreated ==
    [][/\ \A i \in 1 .. Len(orders) :
            orders'[i].status # orders[i].status =>
                orders'[i].status \in {"Paid", "Shipped", "Cancelled"}
       /\ \A i \in 1 .. Len(orders') :
            /\ orders'[i].status \in {"Created", "Paid", "Shipped", "Cancelled"}
            /\ i > Len(orders) => orders'[i].status = "Created"]_vars

\* pay() has moved a Shipped order to Paid
C8_Witness ==
    /\ last.op = "pay"
    /\ last.was = "Shipped"
    /\ orders[last.idx].status = "Paid"

\* C9: a new Order has status Created; pay(), ship() and cancel() set the
\* status to Paid, Shipped and Cancelled from any status, and change nothing
\* else of the order (its id, its item map) or of any other order.
C9_StatusCallsOverwrite ==
    [][/\ last'.op = "Order" =>
            /\ Len(orders') = Len(orders) + 1
            /\ last'.idx = Len(orders')
            /\ orders'[last'.idx].status = "Created"
       /\ last'.op = "pay" =>
            orders' = [orders EXCEPT ![last'.idx].status = "Paid"]
       /\ last'.op = "ship" =>
            orders' = [orders EXCEPT ![last'.idx].status = "Shipped"]
       /\ last'.op = "cancel" =>
            orders' = [orders EXCEPT ![last'.idx].status = "Cancelled"]]_vars

\* cancel() after ship()
C9_Witness ==
    /\ last.op = "cancel"
    /\ last.was = "Shipped"
    /\ orders[last.idx].status = "Cancelled"
    /\ orders[last.idx].items # EmptyItems

\* C10: cart += p leaves the cart as addProduct(p, 1) would; cart + p returns
\* that cart and leaves the operand as it was, so for a non-null p the cart
\* returned differs from the operand.
C10_OperatorsDelegate ==
    /\ last.op = "operator+=" => cart = addProduct(last.before, last.p, 1)
    /\ last.op = "operator+" =>
          /\ last.ret = addProduct(last.before, last.p, 1)
          /\ cart = last.before
          /\ last.p # Null => last.ret # cart

\* cart + p for a product the cart already holds
C10_Witness ==
    /\ last.op = "operator+"
    /\ last.p # Null
    /\ last.id \in DOMAIN cart
    /\ last.ret[last.id].second = cart[last.id].second + 1

====
